---- MODULE Spec2Model ----
(***************************************************************************)
(* A model of packages/datastore/src/fields.ts: the schema field classes   *)
(* (BaseField, ListField, MapField, TextField, ValueField), the Field      *)
(* factory namespace, and the change records the fields declare.           *)
(*                                                                         *)
(* JavaScript values are written as strings: "undefined", "true", "false", *)
(* "0", "42", "''" (the empty string), "'doc'".  An object is a function   *)
(* from its own property names to values; a property that is present with  *)
(* the value undefined is in the domain and maps to "undefined".           *)
(***************************************************************************)
EXTENDS Integers, Sequences, FiniteSets, TLC

VARIABLES fields, uuids, lastCall, list, listLog, map, mapLog

fieldVars == <<fields, uuids, lastCall>>
listVars == <<list, listLog>>
mapVars == <<map, mapLog>>
vars == <<fields, uuids, lastCall, list, listLog, map, mapLog>>

\* The number of constructor and factory calls a behaviour makes.
MaxCalls == 2

-----------------------------------------------------------------------------
(* JavaScript values and objects *)

Undefined == "undefined"
JSTrue == "true"
JSFalse == "false"
JSZero == "0"
JSEmptyString == "''"

\* typeof v
TypeOf(v) ==
  CASE v = Undefined -> "undefined"
    [] v \in {JSTrue, JSFalse} -> "boolean"
    [] v \in {"0", "42"} -> "number"
    [] OTHER -> "string"

\* {}
EmptyObject == [k \in {} |-> Undefined]

\* o[key]: undefined when o has no such property
GetProp(o, key) == IF key \in DOMAIN o THEN o[key] ELSE Undefined

\* o[key] = v
SetProp(o, key, v) == [k \in DOMAIN o \cup {key} |-> IF k = key THEN v ELSE o[k]]

\* { ...a, ...b }: every own property of b, present-with-undefined included,
\* replaces the property of a with the same name.
Spread(a, b) == [k \in DOMAIN a \cup DOMAIN b |-> IF k \in DOMAIN b THEN b[k] ELSE a[k]]

\* BaseField.IOptions / ValueField.IOptions: the options objects a caller passes.
\* Each key is absent, present with undefined, or present with a value.
OptionObjects ==
  { Spread(Spread(u, d), v) :
      u \in {EmptyObject, [undoable |-> Undefined], [undoable |-> JSFalse]},
      d \in {EmptyObject, [description |-> Undefined], [description |-> "'doc'"]},
      v \in {EmptyObject, [value |-> Undefined], [value |-> "42"]} }

\* A call's argument: an options object, or no argument at all (undefined).
NoArg == [given |-> FALSE, obj |-> EmptyObject]
Args == {NoArg} \cup { [given |-> TRUE, obj |-> o] : o \in OptionObjects }

-----------------------------------------------------------------------------
(* The machine a call runs on.  fields: the field objects constructed so   *)
(* far, by address; objs: the plain objects of the call (the caller's      *)
(* options object at address 1 when one is passed, then the object         *)
(* literals the call evaluates); uuids: how many identities UUID.uuid4 has *)
(* handed out; threw: whether the call raised; ret: the address the last   *)
(* expression evaluated to.  Address 0 stands for undefined.               *)

Machine(fs, n, arg) ==
  [fields |-> fs, objs |-> IF arg.given THEN <<arg.obj>> ELSE <<>>,
   uuids |-> n, threw |-> FALSE, ret |-> 0]

ArgAddress(arg) == IF arg.given THEN 1 ELSE 0

\* An object literal: a new plain object with the given properties.
ObjectLiteral(m, props) ==
  [m EXCEPT !.objs = Append(@, props), !.ret = Len(m.objs) + 1]

\* A parameter declared `options = {}`: undefined is replaced by a new {}.
DefaultParam(m, arg) == IF arg = 0 THEN ObjectLiteral(m, EmptyObject) ELSE [m EXCEPT !.ret = arg]

\* new C: a fresh object of class cls with no own property yet.
Allocate(m, cls) ==
  [m EXCEPT !.fields = Append(@, [cls |-> cls, props |-> EmptyObject]),
            !.ret = Len(m.fields) + 1]

\* Put with the property kept in one place for every field object (as on the
\* prototype) instead of on this.
PutShared(m, this, key, v) ==
  [m EXCEPT !.fields = [a \in DOMAIN m.fields |-> [m.fields[a] EXCEPT !.props = SetProp(@, key, v)]]]

\* this.key = v
Put(m, this, key, v) ==
  [m EXCEPT !.fields[this].props = SetProp(@, key, v)]

\* UUID.uuid4(): the identity service, which returns a fresh token per request.
uuid4(m) == [m EXCEPT !.uuids = @ + 1, !.ret = m.uuids + 1]

\* The n-th token the identity service hands out.
UuidToken(n) == "uuid-" \o ToString(n)

\* UuidInit with one identity requested once and shared by every field.
UuidInitStatic(m, this) == Put(m, this, "uuid", UuidToken(1))

\* readonly uuid = UUID.uuid4(): the property initialiser

UuidInit(m, this) ==
  LET m1 == uuid4(m) IN Put(m1, this, "uuid", UuidToken(m1.ret))

\* { undoable: true, description: '' }
BaseDefaults == [undoable |-> JSTrue, description |-> JSEmptyString]

\* BaseField_constructor with the defaults never replaced by the options.
BaseFieldIgnoresOptions(m, this, arg) ==
  LET m1 == UuidInit(m, this)
      m2 == Put(m1, this, "undoable", BaseDefaults.undoable)
  IN Put(m2, this, "description", BaseDefaults.description)

\* BaseField.constructor(options = {}):
\*   let opts = { undoable: true, description: '', ...options };
\*   this.undoable = opts.undoable; this.description = opts.description;
\* after the property initialiser of uuid has run.
BaseField_constructor(m, this, arg) ==
  LET m1 == UuidInit(m, this)
      m2 == DefaultParam(m1, arg)
      options == m2.ret
      m3 == ObjectLiteral(m2, Spread(BaseDefaults, m2.objs[options]))
      opts == m3.objs[m3.ret]
      m4 == Put(m3, this, "undoable", GetProp(opts, "undoable"))
  IN Put(m4, this, "description", GetProp(opts, "description"))

\* ListField.constructor(options = {}): super(options)
ListField_constructor(m, this, arg) ==
  LET m1 == DefaultParam(m, arg) IN BaseField_constructor(m1, this, m1.ret)

\* MapField.constructor(options = {}): super(options)
MapField_constructor(m, this, arg) ==
  LET m1 == DefaultParam(m, arg) IN BaseField_constructor(m1, this, m1.ret)

\* TextField.constructor(options = {}): super(options)
TextField_constructor(m, this, arg) ==
  LET m1 == DefaultParam(m, arg) IN BaseField_constructor(m1, this, m1.ret)

\* ValueField_constructor with a check that raises when the options carry no
\* value key.
ValueFieldRequiresValue(m, this, arg) ==
  LET m1 == BaseField_constructor(m, this, arg)
  IN IF arg = 0 \/ "value" \notin DOMAIN m1.objs[arg]
       THEN [m1 EXCEPT !.threw = TRUE]
       ELSE Put(m1, this, "value", GetProp(m1.objs[arg], "value"))

\* ValueField.constructor(options): super(options); this.value = options.value.
\* Reading a property of undefined raises a TypeError.
ValueField_constructor(m, this, arg) ==
  LET m1 == BaseField_constructor(m, this, arg)
  IN IF arg = 0
       THEN [m1 EXCEPT !.threw = TRUE]
       ELSE Put(m1, this, "value", GetProp(m1.objs[arg], "value"))

\* The constructor of each class.
Construct(m, cls, this, arg) ==
  CASE cls = "ListField" -> ListField_constructor(m, this, arg)
    [] cls = "MapField" -> MapField_constructor(m, this, arg)
    [] cls = "TextField" -> TextField_constructor(m, this, arg)
    [] cls = "ValueField" -> ValueField_constructor(m, this, arg)

\* new cls(arg): allocate, run the constructor, and evaluate to the new object;
\* when the constructor raises, the object is referenced by nothing.
New(m, cls, arg) ==
  LET m0 == Allocate(m, cls)
      this == m0.ret
      m1 == Construct(m0, cls, this, arg)
  IN IF m1.threw
       THEN [m1 EXCEPT !.fields = SubSeq(@, 1, Len(@) - 1), !.ret = 0]
       ELSE [m1 EXCEPT !.ret = this]

\* Type with the getter of ListField inherited by every class.
TypeAllList(f) == "list"

\* get type(): the discriminant each class returns

Type(f) ==
  CASE f.cls = "ListField" -> "list"
    [] f.cls = "MapField" -> "map"
    [] f.cls = "TextField" -> "text"
    [] f.cls = "ValueField" -> "value"

-----------------------------------------------------------------------------
(* The Field factory namespace *)

\* Field_Boolean with the spread before the default: { ...options, value: false }
Field_BooleanReversed(m, arg) ==
  LET m1 == DefaultParam(m, arg)
      m2 == ObjectLiteral(m1, Spread(m1.objs[m1.ret], [value |-> JSFalse]))
  IN New(m2, "ValueField", m2.ret)

\* Field.Boolean(options = {}): new ValueField({ value: false, ...options })
Field_Boolean(m, arg) ==
  LET m1 == DefaultParam(m, arg)
      m2 == ObjectLiteral(m1, Spread([value |-> JSFalse], m1.objs[m1.ret]))
  IN New(m2, "ValueField", m2.ret)

\* Field.Number(options = {}): new ValueField({ value: 0, ...options })
Field_Number(m, arg) ==
  LET m1 == DefaultParam(m, arg)
      m2 == ObjectLiteral(m1, Spread([value |-> JSZero], m1.objs[m1.ret]))
  IN New(m2, "ValueField", m2.ret)

\* Field_String with the default written into the caller's options object
\* instead of a new object literal.
Field_StringCopiesDefaults(m, arg) ==
  LET m1 == DefaultParam(m, arg)
      filled == Spread([value |-> JSEmptyString], m1.objs[m1.ret])
      m2 == [m1 EXCEPT !.objs[m1.ret] = filled]
  IN New(m2, "ValueField", m2.ret)

\* Field.String(options = {}): new ValueField({ value: '', ...options })
Field_String(m, arg) ==
  LET m1 == DefaultParam(m, arg)
      m2 == ObjectLiteral(m1, Spread([value |-> JSEmptyString], m1.objs[m1.ret]))
  IN New(m2, "ValueField", m2.ret)

\* Field.List(options = {}): new ListField(options)
Field_List(m, arg) ==
  LET m1 == DefaultParam(m, arg) IN New(m1, "ListField", m1.ret)

\* Field.Map(options = {}): new MapField(options)
Field_Map(m, arg) ==
  LET m1 == DefaultParam(m, arg) IN New(m1, "MapField", m1.ret)

\* Field.Text(options = {}): new TextField(options)
Field_Text(m, arg) ==
  LET m1 == DefaultParam(m, arg) IN New(m1, "TextField", m1.ret)

\* Field.Value(options): new ValueField(options)
Field_Value(m, arg) == New(m, "ValueField", arg)

-----------------------------------------------------------------------------
(* Calls by application code *)

NoCall ==
  [fn |-> "none", given |-> FALSE, options |-> EmptyObject,
   optionsAfter |-> EmptyObject, threw |-> FALSE, ret |-> 0]

\* What a call leaves behind: the fields, the identities consumed, and a record
\* of the call (the options object as passed and as it is afterwards).
Return(fn, arg, m) ==
  /\ fields' = m.fields
  /\ uuids' = m.uuids
  /\ lastCall' = [fn |-> fn, given |-> arg.given, options |-> arg.obj,
                  optionsAfter |-> IF arg.given THEN m.objs[1] ELSE EmptyObject,
                  threw |-> m.threw, ret |-> m.ret]
  /\ UNCHANGED <<listVars, mapVars>>

Start(arg) == Machine(fields, uuids, arg)

NewListField ==
  /\ uuids < MaxCalls
  /\ \E arg \in Args :
       Return("new ListField", arg, New(Start(arg), "ListField", ArgAddress(arg)))
NewMapField ==
  /\ uuids < MaxCalls
  /\ \E arg \in Args :
       Return("new MapField", arg, New(Start(arg), "MapField", ArgAddress(arg)))
NewTextField ==
  /\ uuids < MaxCalls
  /\ \E arg \in Args :
       Return("new TextField", arg, New(Start(arg), "TextField", ArgAddress(arg)))
NewValueField ==
  /\ uuids < MaxCalls
  /\ \E arg \in Args :
       Return("new ValueField", arg, New(Start(arg), "ValueField", ArgAddress(arg)))
CallBoolean ==
  /\ uuids < MaxCalls
  /\ \E arg \in Args :
       Return("Boolean", arg, Field_Boolean(Start(arg), ArgAddress(arg)))
CallNumber ==
  /\ uuids < MaxCalls
  /\ \E arg \in Args :
       Return("Number", arg, Field_Number(Start(arg), ArgAddress(arg)))
CallString ==
  /\ uuids < MaxCalls
  /\ \E arg \in Args :
       Return("String", arg, Field_String(Start(arg), ArgAddress(arg)))
CallList ==
  /\ uuids < MaxCalls
  /\ \E arg \in Args :
       Return("List", arg, Field_List(Start(arg), ArgAddress(arg)))
CallMap ==
  /\ uuids < MaxCalls
  /\ \E arg \in Args :
       Return("Map", arg, Field_Map(Start(arg), ArgAddress(arg)))
CallText ==
  /\ uuids < MaxCalls
  /\ \E arg \in Args :
       Return("Text", arg, Field_Text(Start(arg), ArgAddress(arg)))
CallValue ==
  /\ uuids < MaxCalls
  /\ \E arg \in Args :
       Return("Value", arg, Field_Value(Start(arg), ArgAddress(arg)))

\* No field is constructed when the module is loaded.
FieldInit ==
  /\ fields = <<>>
  /\ uuids = 0
  /\ lastCall = NoCall

\* The list and the map a field's value starts as, with no change recorded.
ContainersInit ==
  /\ list = <<>>
  /\ listLog = <<>>
  /\ map = EmptyObject
  /\ mapLog = <<>>

Init == FieldInit /\ ContainersInit

Next ==
  \/ NewListField
  \/ NewMapField
  \/ NewTextField
  \/ NewValueField
  \/ CallBoolean
  \/ CallNumber
  \/ CallString
  \/ CallList
  \/ CallMap
  \/ CallText
  \/ CallValue

Spec == Init /\ [][Next]_vars

-----------------------------------------------------------------------------
(* What the claims read *)

Factories == {"Boolean", "Number", "String", "List", "Map", "Text", "Value"}

\* The function or constructor named fn, run on machine m.
Invoke(fn, m, arg) ==
  CASE fn = "new ListField" -> New(m, "ListField", arg)
    [] fn = "new MapField" -> New(m, "MapField", arg)
    [] fn = "new TextField" -> New(m, "TextField", arg)
    [] fn = "new ValueField" -> New(m, "ValueField", arg)
    [] fn = "Boolean" -> Field_Boolean(m, arg)
    [] fn = "Number" -> Field_Number(m, arg)
    [] fn = "String" -> Field_String(m, arg)
    [] fn = "List" -> Field_List(m, arg)
    [] fn = "Map" -> Field_Map(m, arg)
    [] fn = "Text" -> Field_Text(m, arg)
    [] fn = "Value" -> Field_Value(m, arg)

Called == lastCall.fn # "none"
Returned == Called /\ ~lastCall.threw
Result == fields[lastCall.ret]

\* What a reader sees of a field, its identity aside.
FieldView(f) ==
  [kind |-> Type(f), hasValue |-> "value" \in DOMAIN f.props,
   undoable |-> GetProp(f.props, "undoable"),
   description |-> GetProp(f.props, "description"),
   value |-> GetProp(f.props, "value")]

\* What a call on machine m came to: a raise, or the field it returned.
Outcome(m) ==
  IF m.threw THEN [threw |-> TRUE]
  ELSE [threw |-> FALSE, view |-> FieldView(m.fields[m.ret]), uuid |-> m.fields[m.ret].props.uuid]

\* The fields and identities as they were before the last call.
FieldsBefore == IF lastCall.threw THEN fields ELSE SubSeq(fields, 1, Len(fields) - 1)
Before(arg) == Machine(FieldsBefore, uuids - 1, arg)

\* The last call's outcome as the state shows it.
Observed ==
  IF lastCall.threw THEN [threw |-> TRUE]
  ELSE [threw |-> FALSE, view |-> FieldView(Result), uuid |-> Result.props.uuid]

WithoutKey(o, key) == [k \in DOMAIN o \ {key} |-> o[k]]

\* The option as supplied when its key is present, the default otherwise.
SuppliedOr(o, key, default) == IF key \in DOMAIN o THEN o[key] ELSE default

DefaultValue(fn) ==
  CASE fn = "Boolean" -> JSFalse
    [] fn = "Number" -> JSZero
    [] fn = "String" -> JSEmptyString

\* C2: Boolean, Number and String return a value field whose value is false,
\* 0 and '' respectively, whose undoable is true and whose description is '',
\* except that each option the caller supplies replaces its default.
C2_FactoryDefaults ==
  lastCall.fn \in {"Boolean", "Number", "String"} =>
    /\ ~lastCall.threw
    /\ Type(Result) = "value"
    /\ Result.props.value = SuppliedOr(lastCall.options, "value", DefaultValue(lastCall.fn))
    /\ Result.props.undoable = SuppliedOr(lastCall.options, "undoable", JSTrue)
    /\ Result.props.description = SuppliedOr(lastCall.options, "description", JSEmptyString)

\* C2 witness: Number() with no argument returned value 0, undoable true,
\* description ''.
C2_Witness ==
  /\ lastCall.fn = "Number"
  /\ ~lastCall.given
  /\ Returned
  /\ Result.props.value = JSZero
  /\ Result.props.undoable = JSTrue
  /\ Result.props.description = JSEmptyString

ExpectedKind(fn) ==
  CASE fn \in {"new ListField", "List"} -> "list"
    [] fn \in {"new MapField", "Map"} -> "map"
    [] fn \in {"new TextField", "Text"} -> "text"
    [] fn \in {"new ValueField", "Value", "Boolean", "Number", "String"} -> "value"

C3_KindAtConstruction == Returned => Type(Result) = ExpectedKind(lastCall.fn)

C3_KindStable == \A a \in DOMAIN fields : a \in DOMAIN fields' /\ Type(fields'[a]) = Type(fields[a])

\* C3: a freshly constructed field's kind is the constant of its class ('list',
\* 'map', 'text' or 'value'), whatever the options, and every later read of
\* the kind returns the same.
C3_Kind == [](C3_KindAtConstruction) /\ [][C3_KindStable]_vars

\* C3 witness: a map field built with options is read after a later construction.
C3_Witness ==
  /\ Len(fields) = 2
  /\ Type(fields[1]) = "map"
  /\ fields[1].props.undoable = JSFalse
  /\ Type(fields[2]) = "text"

C4_Unique ==
  \A a \in DOMAIN fields :
    /\ fields[a].props.uuid # ""
    /\ \A b \in DOMAIN fields : a # b => fields[a].props.uuid # fields[b].props.uuid

C4_OneRequest == uuids' = uuids + 1

\* C4: every field's identity is non-empty, no two fields share an identity,
\* and every construction requests exactly one identity.
C4_Identity == [](C4_Unique) /\ [][C4_OneRequest]_vars

\* C4 witness: two fields, the second built by a factory, with different
\* identities.
C4_Witness ==
  /\ Len(fields) = 2
  /\ uuids = 2
  /\ lastCall.fn \in Factories
  /\ fields[1].props.uuid # fields[2].props.uuid

\* C5: with undoable: false in the options the field's undoable is false, and
\* kind, description, value and identity are those of the same call made
\* without the undoable option.
C5_UndoableOverride ==
  (Called /\ lastCall.given /\ GetProp(lastCall.options, "undoable") = JSFalse) =>
    LET plain == [given |-> TRUE, obj |-> WithoutKey(lastCall.options, "undoable")]
        other == Outcome(Invoke(lastCall.fn, Before(plain), ArgAddress(plain)))
    IN /\ Returned
       /\ Result.props.undoable = JSFalse
       /\ ~other.threw
       /\ other.view.undoable = JSTrue
       /\ Observed.view = [other.view EXCEPT !.undoable = JSFalse]
       /\ Observed.uuid = other.uuid

\* C5 witness: a text field built with undoable: false.
C5_Witness ==
  /\ Returned
  /\ lastCall.given
  /\ GetProp(lastCall.options, "undoable") = JSFalse
  /\ Type(Result) = "text"
  /\ Result.props.undoable = JSFalse

\* C8: once constructed, a field reads the same (undoable, description,
\* identity, value) after every later operation.
C8_Immutable ==
  [][\A a \in DOMAIN fields : a \in DOMAIN fields' /\ fields'[a] = fields[a]]_vars

\* C8 witness: a value field built first, and a second field since built from
\* other options.
C8_Witness ==
  /\ Len(fields) = 2
  /\ Type(fields[1]) = "value"
  /\ fields[1].props.value = "42"
  /\ fields[1].props.undoable = JSFalse
  /\ fields[2].props.undoable = JSTrue
  /\ lastCall.given

DirectClass(fn) ==
  CASE fn = "List" -> "ListField"
    [] fn = "Map" -> "MapField"
    [] fn = "Text" -> "TextField"
    [] fn \in {"Value", "Boolean", "Number", "String"} -> "ValueField"

\* The options with the factory's default value filled in where the caller
\* gave no value key.
FillDefault(fn, o) ==
  IF fn \in {"Boolean", "Number", "String"} /\ "value" \notin DOMAIN o
    THEN SetProp(o, "value", DefaultValue(fn))
    ELSE o

\* The argument the factory's direct construction is given.
DirectArg(fn, given, o) ==
  IF given \/ fn \in {"Boolean", "Number", "String"}
    THEN [given |-> TRUE, obj |-> FillDefault(fn, o)]
    ELSE NoArg

C9_Agrees ==
  lastCall.fn \in Factories =>
    LET direct == DirectArg(lastCall.fn, lastCall.given, lastCall.options)
        other == Outcome(New(Before(direct), DirectClass(lastCall.fn), ArgAddress(direct)))
    IN /\ Observed.threw = other.threw
       /\ ~other.threw => Observed.view = other.view
       /\ lastCall.optionsAfter = lastCall.options

C9_Pure ==
  /\ uuids' = uuids + 1
  /\ \A a \in DOMAIN fields : a \in DOMAIN fields' /\ fields'[a] = fields[a]
  /\ Len(fields') \in {Len(fields), Len(fields) + 1}

\* C9: each factory returns a field that agrees with the directly constructed
\* one on kind, undoable, description and value (Boolean, Number and String
\* with the default value filled in), leaves its options object and every
\* earlier field as they were, and consumes one identity.
C9_Factory == [](C9_Agrees) /\ [][C9_Pure]_vars

\* C9 witness: String called with options that carry no value, after an
\* earlier field was built.
C9_Witness ==
  /\ lastCall.fn = "String"
  /\ lastCall.given
  /\ "value" \notin DOMAIN lastCall.options
  /\ "description" \in DOMAIN lastCall.options
  /\ Returned
  /\ Len(fields) = 2
  /\ Result.props.value = JSEmptyString

\* The calls the TypeScript option types admit.
Admitted ==
  LET o == lastCall.options
      v == GetProp(o, "value")
  IN CASE lastCall.fn \in {"Value", "new ValueField"} -> lastCall.given /\ "value" \in DOMAIN o /\ v # Undefined
       [] lastCall.fn = "Boolean" -> TypeOf(v) \in {"undefined", "boolean"}
       [] lastCall.fn = "Number" -> TypeOf(v) \in {"undefined", "number"}
       [] lastCall.fn = "String" -> TypeOf(v) \in {"undefined", "string"}
       [] OTHER -> "value" \notin DOMAIN o

\* C10: every field built from options the option type admits has a boolean
\* undoable and a string description; an undoable or description key that is
\* absent, or present with the value undefined, gives the default.
C10_DefaultsWhenUndefined ==
  (Returned /\ Admitted) =>
    /\ TypeOf(Result.props.undoable) = "boolean"
    /\ TypeOf(Result.props.description) = "string"
    /\ GetProp(lastCall.options, "undoable") = Undefined => Result.props.undoable = JSTrue
    /\ GetProp(lastCall.options, "description") = Undefined => Result.props.description = JSEmptyString

-----------------------------------------------------------------------------
(* ListField change records, the list they describe and their inverse *)

\* The most changes a behaviour applies to the list.
MaxListChanges == 3

\* The most values one insert carries.
MaxValues == 2

ListValues == {"a", "b"}

\* The values arrays of 1..MaxValues values.
RECURSIVE ValueArrays(_)
ValueArrays(n) ==
  IF n = 0 THEN {<<>>}
  ELSE ValueArrays(n - 1) \cup { Append(a, v) : a \in { x \in ValueArrays(n - 1) : Len(x) = n - 1 }, v \in ListValues }

\* ListChange with the index left out of the record.
ListChangeNoIndex(type, index, values) == [type |-> type, index |-> 0, values |-> values]

\* ListField.IChange: { type, index, values }
ListChange(type, index, values) == [type |-> type, index |-> index, values |-> values]

\* The list container's insert: values placed at position index (0-based).
InsertAt(s, index, values) ==
  SubSeq(s, 1, index) \o values \o SubSeq(s, index + 1, Len(s))

\* The list container's remove: count values taken out from position index.
RemoveAt(s, index, count) ==
  SubSeq(s, 1, index) \o SubSeq(s, index + count + 1, Len(s))

\* One change applied to a sequence state.
ApplyListChange(s, c) ==
  IF c.type = "insert" THEN InsertAt(s, c.index, c.values)
  ELSE RemoveAt(s, c.index, Len(c.values))

\* ListField.ChangeArray applied left to right, each operation against the
\* sequence as it is when the operation is processed.
RECURSIVE ApplyListChanges(_, _)
ApplyListChanges(s, cs) ==
  IF cs = <<>> THEN s ELSE ApplyListChanges(ApplyListChange(s, Head(cs)), Tail(cs))

\* The inverse of a change: insert and remove swapped, same index and values.
InvertListChange(c) ==
  [c EXCEPT !.type = IF c.type = "insert" THEN "remove" ELSE "insert"]

InvertListChanges(cs) == [k \in DOMAIN cs |-> InvertListChange(cs[k])]

ListLogged(cs, before, after, undoes) ==
  [changes |-> cs, before |-> before, after |-> after, undoes |-> undoes]

\* list.insert(index, values): the mutation and the change array it records.
ListInsert ==
  /\ Len(listLog) < MaxListChanges
  /\ \E index \in 0..Len(list), values \in ValueArrays(MaxValues) \ {<<>>} :
       LET after == InsertAt(list, index, values)
       IN /\ list' = after
          /\ listLog' = Append(listLog, ListLogged(<<ListChange("insert", index, values)>>, list, after, 0))
  /\ UNCHANGED <<fieldVars, mapVars>>

\* list.remove(index, count): the mutation and the change array it records.
ListRemove ==
  /\ Len(listLog) < MaxListChanges
  /\ \E index \in 0..(Len(list) - 1) :
       \E count \in 1..(Len(list) - index) :
         LET after == RemoveAt(list, index, count)
             removed == SubSeq(list, index + 1, index + count)
         IN /\ list' = after
            /\ listLog' = Append(listLog, ListLogged(<<ListChange("remove", index, removed)>>, list, after, 0))
  /\ UNCHANGED <<fieldVars, mapVars>>

\* Undo of the latest change: its inverse, computed from the change record
\* alone, applied to the list.
ListUndo ==
  /\ Len(listLog) < MaxListChanges
  /\ listLog # <<>>
  /\ listLog[Len(listLog)].undoes = 0
  /\ LET inverse == InvertListChanges(listLog[Len(listLog)].changes)
         after == ApplyListChanges(list, inverse)
     IN /\ list' = after
        /\ listLog' = Append(listLog, ListLogged(inverse, list, after, Len(listLog)))
  /\ UNCHANGED <<fieldVars, mapVars>>

ListNext ==
  \/ ListInsert
  \/ ListRemove
  \/ ListUndo

SpecList == Init /\ [][ListNext]_vars

\* C6: a change of one insert followed by its inverse (a remove at the same
\* index with the same values) leaves the sequence as it was before the insert.
C6_InsertThenInverse ==
  \A k \in DOMAIN listLog :
    LET e == listLog[k] IN
      (e.undoes > 0 /\ listLog[e.undoes].changes[1].type = "insert") =>
        LET c == listLog[e.undoes].changes[1] IN
          /\ e.undoes = k - 1
          /\ e.changes = <<[type |-> "remove", index |-> c.index, values |-> c.values]>>
          /\ e.before = listLog[e.undoes].after
          /\ e.after = listLog[e.undoes].before

\* C6 witness: an insert inside a non-empty sequence, then its inverse.
C6_Witness ==
  \E k \in DOMAIN listLog :
    /\ listLog[k].undoes = k - 1
    /\ k > 1
    /\ listLog[k - 1].changes[1].type = "insert"
    /\ listLog[k - 1].changes[1].index > 0
    /\ listLog[k - 1].changes[1].index < Len(listLog[k - 1].before)
    /\ list = listLog[k - 1].before

-----------------------------------------------------------------------------
(* MapField change records, the map they describe and their inverse *)

\* The most changes a behaviour applies to the map.
MaxMapChanges == 3

MapKeys == {"a", "b"}

MapValues == {"1", "2"}

\* MapChange with the keys that are absent at that point left out, T instead
\* of T | undefined.
MapChangeDropsAbsent(previous, current) ==
  [previous |-> [k \in { x \in DOMAIN previous : previous[x] # Undefined } |-> previous[k]],
   current |-> [k \in { x \in DOMAIN current : current[x] # Undefined } |-> current[k]]]

\* MapField.IChange: { previous, current }, each from the changed keys to a
\* value or undefined (the key is absent at that point).
MapChange(previous, current) == [previous |-> previous, current |-> current]

\* The map container's update: every key of items is set to its value, or
\* deleted when the value is undefined; the other keys are left alone.
ApplyMapItems(m, items) ==
  [k \in { x \in DOMAIN m \cup DOMAIN items : x \in DOMAIN items => items[x] # Undefined } |->
     IF k \in DOMAIN items THEN items[k] ELSE m[k]]

\* The value of each key of keys in m, undefined where m has no such key.
MapSnapshot(m, keys) == [k \in keys |-> GetProp(m, k)]

\* The update objects over a non-empty set of keys.
MapItems == UNION { [keys -> MapValues \cup {Undefined}] : keys \in (SUBSET MapKeys) \ {{}} }

MapLogged(c, before, after, undoes) ==
  [change |-> c, before |-> before, after |-> after, undoes |-> undoes]

\* map.update(items): the mutation and the change it records.
MapUpdate ==
  /\ Len(mapLog) < MaxMapChanges
  /\ \E items \in MapItems :
       LET after == ApplyMapItems(map, items)
       IN /\ map' = after
          /\ mapLog' = Append(mapLog, MapLogged(MapChange(MapSnapshot(map, DOMAIN items), items), map, after, 0))
  /\ UNCHANGED <<fieldVars, listVars>>

\* Undo of the latest change: previous applied in place of current.
MapUndo ==
  /\ Len(mapLog) < MaxMapChanges
  /\ mapLog # <<>>
  /\ mapLog[Len(mapLog)].undoes = 0
  /\ LET c == mapLog[Len(mapLog)].change
         after == ApplyMapItems(map, c.previous)
     IN /\ map' = after
        /\ mapLog' = Append(mapLog, MapLogged(MapChange(c.current, c.previous), map, after, Len(mapLog)))
  /\ UNCHANGED <<fieldVars, listVars>>

MapNext ==
  \/ MapUpdate
  \/ MapUndo

SpecMap == Init /\ [][MapNext]_vars

\* The keys of a change: those named in previous or in current.
ChangedKeys(c) == DOMAIN c.previous \cup DOMAIN c.current

\* C7: applying a change's previous in place of its current gives back the
\* map as it was before the change, added and deleted keys included, and an
\* applied change leaves the keys it does not name as they were.
C7_MapInvertible ==
  \A k \in DOMAIN mapLog :
    LET e == mapLog[k] IN
      /\ \A key \in MapKeys \ ChangedKeys(e.change) :
           /\ (key \in DOMAIN e.after) = (key \in DOMAIN e.before)
           /\ GetProp(e.after, key) = GetProp(e.before, key)
      /\ e.undoes > 0 =>
           /\ e.undoes = k - 1
           /\ e.before = mapLog[e.undoes].after
           /\ e.after = mapLog[e.undoes].before

\* C7 witness: a change that added one key and altered or deleted another,
\* then undone.
C7_Witness ==
  \E k \in DOMAIN mapLog :
    /\ k > 1
    /\ mapLog[k].undoes = k - 1
    /\ \E key \in DOMAIN mapLog[k - 1].change.previous :
         /\ mapLog[k - 1].change.previous[key] = Undefined
         /\ mapLog[k - 1].change.current[key] # Undefined
    /\ \E key \in DOMAIN mapLog[k - 1].change.previous :
         /\ mapLog[k - 1].change.previous[key] # Undefined
         /\ mapLog[k - 1].change.current[key] = Undefined
    /\ map = mapLog[k - 1].before

====
